---- MODULE Spec2Model ----
(***************************************************************************)
(* Model of mentat's CodeContext (src/mentat/code_context.py): the         *)
(* inclusion overlay, the diff annotator, the code-map budget allocator,   *)
(* the refresh pipeline and add_path / remove_path; and of the parent      *)
(* chaining of samples in Sampler (src/mentat/sampler/sampler.py).         *)
(*                                                                         *)
(* The context tree (mentat/context_tree.py: ContextNode, DirectoryNode,   *)
(* FileNode, get_node) is not part of the sources; its behaviour           *)
(* (update_settings, count_tokens, iter_nodes, root[path], root.refresh)   *)
(* is modelled from the specification's sections 3, 4.1 and 4.2.           *)
(***************************************************************************)
EXTENDS Integers, Sequences, FiniteSets, TLC

(* ------------------------------ bounds --------------------------------- *)
\* largest ceiling passed as max_tokens
MaxCeiling == 5
\* largest token cost of a file's code map without signatures
MaxNames == 2
\* largest extra token cost of a file's signatures
MaxExtra == 1
\* number of samples created in a session
MaxSamples == 3
\* number of distinct commits HEAD can be at
MaxHead == 2

(* ------------------------------ paths ---------------------------------- *)
\* A path is the sequence of its segments, relative to the git root.
Root == << >>
FileA == <<"a">>
DirD == <<"d">>
FileB == <<"d", "b">>
FileC == <<"d", "c">>
\* git-ignored directory and file, present on disk, absent from the tree
DirV == <<"v">>
FileVL == <<"v", "l">>
\* the segment "l" directly under the root
FileL == <<"l">>
\* a file deleted from disk that a diff can still name
FileX == <<"x">>

\* every path that can get a node
AllPaths == {Root, FileA, DirD, FileB, FileC, DirV, FileVL, FileL}
\* paths the scan of the git-tracked files yields
Tracked == {Root, FileA, DirD, FileB, FileC}
\* paths for which Path.exists() is true
OnDisk == {Root, FileA, DirD, FileB, FileC, DirV, FileVL}
\* nodes whose last segment names a file
FilePaths == {FileA, FileB, FileC, FileVL, FileL}
\* pre-order of the tree: children in insertion order (scan first, then added)
PreOrderAll == <<Root, FileA, DirD, FileB, FileC, DirV, FileVL, FileL>>

\* max_tokens: Optional[int] = None
NoCeiling == -1
Ceilings == {NoCeiling} \cup (0 .. MaxCeiling)

VARIABLES
    nodes,              \* paths that have a node in the tree under root
    include,            \* node_settings.include of every node
    diff,               \* node_settings.diff
    code_map,           \* node_settings.code_map
    include_signature,  \* node_settings.include_signature
    diff_annotations,   \* FileNodes on which set_diff_annotations was called
    cost,               \* per file: token cost of content, code map, signatures
    paths,              \* context_settings["paths"]
    exclude_paths,      \* context_settings["exclude_paths"]
    no_code_map,        \* context_settings["no_code_map"]
    diff_files,         \* self.diff_context.files
    pc,                 \* position of the single thread
    op,                 \* the running operation and its path argument
    max_tokens,         \* the max_tokens argument of the running call
    feature,            \* _update_feature
    token_budget,       \* token_budget of the greedy loop
    idx,                \* position of the greedy loop in root.iter_nodes()
    outcome,            \* how the running operation ended
    stage,              \* the stage the running allocator call settled on
    visited,            \* nodes the greedy loop has visited in this call
    pre,                \* the tree at the start of the running operation
    mid,                \* the tree when the running pipeline step started
    saved,              \* inputs and result of one earlier allocator run
    ctor_paths,         \* the paths argument CodeContext was constructed with
    commit_active,      \* Sampler.commit_active
    last_sample_id,     \* Sampler.last_sample_id
    last_sample_hexsha, \* Sampler.last_sample_hexsha
    in_repo,            \* whether ctx.cwd is inside a git repository
    head,               \* the commit HEAD is at; 0 before the first commit
    next_id,            \* number of the next value uuid4() yields
    sampler_op,         \* the last Sampler call, its result, the history before
    history             \* most recent sample, HEAD then, and what set_active_diff found since

context_vars ==
    <<nodes, include, diff, code_map, include_signature, diff_annotations,
      cost, paths, exclude_paths, no_code_map, diff_files, pc, op,
      max_tokens, feature, token_budget, idx, outcome, stage, visited,
      pre, mid, saved, ctor_paths>>
sampler_fields == <<commit_active, last_sample_id, last_sample_hexsha>>
sampler_vars == <<sampler_fields, in_repo, head, next_id, sampler_op, history>>
vars == <<context_vars, sampler_vars>>

settings == <<include, diff, code_map, include_signature>>
ctx_settings == <<paths, exclude_paths, no_code_map, ctor_paths>>
loop_vars == <<feature, token_budget, idx, stage, visited>>

(* --------------------------- context tree ------------------------------ *)
IsPrefix(p, q) == Len(p) <= Len(q) /\ SubSeq(q, 1, Len(p)) = p

\* node and, when recursive, every current descendant of it
Targets(ns, node, recursive) ==
    {q \in ns : q = node \/ (recursive /\ IsPrefix(node, q))}

\* ContextNode.update_settings({key: val}, recursive) on the setting f
UpdateSettings(f, ns, node, val, recursive) ==
    [q \in AllPaths |-> IF q \in Targets(ns, node, recursive) THEN val ELSE f[q]]

\* root.iter_nodes(): the nodes of the tree in pre-order, directories included
IterNodes(ns) == SelectSeq(PreOrderAll, LAMBDA p : p \in ns)

\* node.count_tokens(model), non recursive: a directory contributes nothing
NodeTokens(n, inc, cm, sig) ==
    IF n \notin FilePaths THEN 0
    ELSE (IF inc[n] THEN cost[n].raw ELSE 0)
         + (IF cm[n] THEN (IF sig[n] THEN cost[n].names + cost[n].extra
                                      ELSE cost[n].names)
                     ELSE 0)

RECURSIVE SumTokens(_, _, _, _)
SumTokens(S, inc, cm, sig) ==
    IF S = {} THEN 0
    ELSE LET n == CHOOSE x \in S : TRUE
         IN NodeTokens(n, inc, cm, sig) + SumTokens(S \ {n}, inc, cm, sig)

\* root.count_tokens(model, recursive=True)
CountTokens(ns, inc, cm, sig) == SumTokens(ns, inc, cm, sig)

AllFalse == [q \in AllPaths |-> FALSE]

\* get_node(part, parent): the new child takes its parent's current settings
Inherit(f, new, parent) ==
    [q \in AllPaths |-> IF q \in new THEN f[parent] ELSE f[q]]

\* root.refresh(): nodes for the tracked files that have none yet
Scan(ns) == Tracked \ ns

Snapshot == [include |-> include, diff |-> diff, code_map |-> code_map,
             include_signature |-> include_signature, nodes |-> nodes,
             diff_annotations |-> diff_annotations]

NoOp == [name |-> "none", path |-> Root]
NoSaved == [taken |-> FALSE]

(* ------------------------------- Init ---------------------------------- *)
CostRecords == [raw : {1}, names : 1 .. MaxNames, extra : 0 .. MaxExtra]
ZeroCost == [raw |-> 0, names |-> 0, extra |-> 0]
\* the files whose cost is the same in every run
FixedCost == [raw |-> 1, names |-> 1, extra |-> 1]

Costs(ca, cb) ==
    [q \in AllPaths |-> IF q = FileA THEN ca
                        ELSE IF q = FileB THEN cb
                        ELSE IF q \in FilePaths THEN FixedCost
                        ELSE ZeroCost]

\* the file whose code map costs most in the runs of the whole pipeline
LargeCost == [raw |-> 1, names |-> 2, extra |-> 1]

\* the (paths, exclude_paths) arguments CodeContext is constructed with
CtxChoices == {<<{}, {}>>, <<{}, {FileB}>>, <<{FileA}, {FileB}>>,
               <<{FileB}, {DirD}>>, <<{DirD}, {FileB}>>,
               <<{FileB}, {DirD, FileB}>>, <<{DirD, FileB}, {DirD, FileB}>>}

Locals ==
    /\ op = NoOp
    /\ max_tokens = NoCeiling
    /\ feature = "none"
    /\ token_budget = 0
    /\ idx = 0
    /\ outcome = "none"
    /\ stage = "none"
    /\ visited = {}
    /\ pre = Snapshot
    /\ mid = Snapshot
    /\ saved = NoSaved

\* None, the value of an attribute that is not set
NoValue == -1
\* the empty string
EmptyStr == 0
\* no Sampler call has been made
NoSample == [id |-> NoValue, parent_id |-> NoValue]
NoHistory == [last |-> NoValue, hexsha |-> NoValue, broken |-> FALSE]
NoSamplerOp == [name |-> "none", result |-> "none", sample |-> NoSample,
                before |-> NoHistory]

\* class Sampler: the attributes of a new instance
SamplerAttributes ==
    /\ commit_active = NoValue
    /\ last_sample_id = NoValue
    /\ last_sample_hexsha = NoValue

\* a new Sampler in a repository with one commit
SamplerNew ==
    /\ SamplerAttributes
    /\ in_repo = TRUE
    /\ head = 1
    /\ next_id = 1
    /\ sampler_op = NoSamplerOp
    /\ history = NoHistory

\* CodeContext.__init__ up to the call of refresh: the tree is the root alone
Init ==
    /\ nodes = {Root}
    /\ include = AllFalse
    /\ diff = AllFalse
    /\ code_map = AllFalse
    /\ include_signature = AllFalse
    /\ diff_annotations = {}
    /\ cost = Costs(LargeCost, FixedCost)
    /\ \E c \in CtxChoices : paths = c[1] /\ exclude_paths = c[2]
    /\ ctor_paths = paths
    /\ no_code_map \in BOOLEAN
    /\ diff_files = << >>
    /\ pc = "new"
    /\ Locals
    /\ SamplerNew

\* a scanned tree with any selection of its files, for the calls of
\* _set_code_map on their own
InitAlloc ==
    /\ nodes = Tracked
    /\ \E S \in SUBSET {FileA, FileB} : include = [q \in AllPaths |-> q \in S]
    /\ diff = AllFalse
    /\ code_map = AllFalse
    /\ include_signature = AllFalse
    /\ diff_annotations = {}
    /\ \E ca \in CostRecords, cb \in CostRecords : cost = Costs(ca, cb)
    /\ paths = {}
    /\ ctor_paths = {}
    /\ exclude_paths = {}
    /\ no_code_map = FALSE
    /\ diff_files = << >>
    /\ pc = "idle"
    /\ Locals
    /\ SamplerNew

(* ------------------------- inclusion overlay --------------------------- *)
\* mutant: a listed node's setting is not passed down to its descendants
MutIncludeStepFlat(inc, ns, ps, ex, n) ==
    IF n \in ps THEN UpdateSettings(inc, ns, n, TRUE, FALSE)
    ELSE IF n \in ex THEN UpdateSettings(inc, ns, n, FALSE, FALSE)
    ELSE inc

\* mutant: the exclude list is checked before the include list
MutIncludeStep(inc, ns, ps, ex, n) ==
    IF n \in ex THEN UpdateSettings(inc, ns, n, FALSE, TRUE)
    ELSE IF n \in ps THEN UpdateSettings(inc, ns, n, TRUE, TRUE)
    ELSE inc

\* one iteration of the loop of _set_include_paths, on node n
IncludeStep(inc, ns, ps, ex, n) ==
    IF n \in ps THEN UpdateSettings(inc, ns, n, TRUE, TRUE)
    ELSE IF n \in ex THEN UpdateSettings(inc, ns, n, FALSE, TRUE)
    ELSE inc

RECURSIVE IncludeFold(_, _, _, _, _)
IncludeFold(inc, ns, ps, ex, i) ==
    IF i > Len(IterNodes(ns)) THEN inc
    ELSE IncludeFold(IncludeStep(inc, ns, ps, ex, IterNodes(ns)[i]),
                     ns, ps, ex, i + 1)

\* _set_include_paths(root, paths, exclude_paths): the resulting include
SetIncludePaths(inc, ns, ps, ex) == IncludeFold(inc, ns, ps, ex, 1)

(* --------------------------- diff annotator ---------------------------- *)
\* the loop of _set_diff_annotations from file i on; root[file] raises
\* KeyError for a path with no node, which ends the loop
RECURSIVE AnnotateFold(_, _, _, _, _)
AnnotateFold(d, ann, ns, files, i) ==
    IF i > Len(files) THEN [diff |-> d, ann |-> ann, raised |-> FALSE]
    ELSE IF files[i] \notin ns THEN [diff |-> d, ann |-> ann, raised |-> TRUE]
    ELSE AnnotateFold(UpdateSettings(d, ns, files[i], TRUE, TRUE),
                      IF files[i] \in FilePaths THEN ann \cup {files[i]} ELSE ann,
                      ns, files, i + 1)

\* mutant: the diff setting of every node is reset before the loop
MutSetDiffAnnotations(d, ann, ns, files) ==
    AnnotateFold(AllFalse, ann, ns, files, 1)

\* _set_diff_annotations(root, diff_context)
SetDiffAnnotations(d, ann, ns, files) == AnnotateFold(d, ann, ns, files, 1)

(* ----------------------------- refresh --------------------------------- *)
\* what get_diff_context can return as diff_context.files
DiffChoices == {<< >>, <<FileA>>, <<FileB>>, <<FileA, FileX>>, <<FileX, FileA>>}

Range(s) == {s[i] : i \in 1 .. Len(s)}

\* Python truthiness of max_tokens: None and 0 are both falsy
Truthy(m) == m # NoCeiling /\ m # 0

\* context_settings["paths"] after lines 116-117
DefaultPaths(ps, files) == IF ps = {} THEN Range(files) ELSE ps

\* refresh(max_tokens), lines 109-120: the scan, then the diff source.
\* The first call is the one made by __init__.
RefreshStart(m) ==
    /\ pc \in {"new", "idle"}
    /\ op' = [name |-> "refresh", path |-> Root]
    /\ max_tokens' = m
    /\ pre' = Snapshot
    /\ mid' = Snapshot
    /\ outcome' = "running"
    /\ nodes' = nodes \cup Scan(nodes)
    /\ include' = Inherit(include, Scan(nodes), Root)
    /\ diff' = Inherit(diff, Scan(nodes), Root)
    /\ code_map' = Inherit(code_map, Scan(nodes), Root)
    /\ include_signature' = Inherit(include_signature, Scan(nodes), Root)
    /\ \/ \E files \in DiffChoices :
            /\ diff_files' = files
            /\ paths' = DefaultPaths(paths, files)
            /\ pc' = "overlay"
       \/ \* get_diff_context raises UserError: cprint, exit()
          /\ pc' = "exited"
          /\ UNCHANGED <<diff_files, paths>>
    /\ UNCHANGED <<diff_annotations, cost, sampler_vars, exclude_paths, no_code_map,
                   ctor_paths, loop_vars, saved>>

\* refresh, lines 121-122
RefreshInclude ==
    /\ pc = "overlay"
    /\ mid' = Snapshot
    /\ include' = SetIncludePaths(include, nodes, paths, exclude_paths)
    /\ pc' = "annotate"
    /\ UNCHANGED <<nodes, diff, code_map, include_signature, diff_annotations,
                   cost, sampler_vars, ctx_settings, diff_files, op, max_tokens, loop_vars,
                   outcome, pre, saved>>

\* refresh, line 123
RefreshDiff ==
    /\ pc = "annotate"
    /\ mid' = Snapshot
    /\ LET r == SetDiffAnnotations(diff, diff_annotations, nodes, diff_files)
       IN /\ diff' = r.diff
          /\ diff_annotations' = r.ann
          /\ IF r.raised
             THEN pc' = "raised_key" /\ outcome' = "key_error"
             ELSE pc' = "validate" /\ outcome' = outcome
    /\ UNCHANGED <<nodes, include, code_map, include_signature, cost, sampler_vars,
                   ctx_settings, diff_files, op, max_tokens, loop_vars, pre,
                   saved>>

\* refresh, lines 125-134
RefreshValidate ==
    /\ pc = "validate"
    /\ mid' = Snapshot
    /\ LET context_length ==
               CountTokens(nodes, include, code_map, include_signature)
       IN IF Truthy(max_tokens) /\ context_length > max_tokens
          THEN /\ outcome' = "budget_exceeded"
               /\ pc' = IF pre.nodes = {Root} THEN "ctor_failed" ELSE "done"
          ELSE IF ~no_code_map
          THEN pc' = "cm_ctags" /\ outcome' = outcome
          ELSE pc' = "done" /\ outcome' = "completed"
    /\ UNCHANGED <<nodes, settings, diff_annotations, cost, sampler_vars, ctx_settings,
                   diff_files, op, max_tokens, loop_vars, pre, saved>>

(* --------------------------- the allocator ----------------------------- *)
\* a call of _set_code_map(root, model, max_tokens) made outside refresh
CallSetCodeMap(m) ==
    /\ pc = "idle"
    /\ pc' = "cm_ctags"
    /\ op' = [name |-> "set_code_map", path |-> Root]
    /\ max_tokens' = m
    /\ pre' = Snapshot
    /\ mid' = Snapshot
    /\ outcome' = "running"
    /\ UNCHANGED <<nodes, settings, diff_annotations, cost, sampler_vars, ctx_settings,
                   diff_files, loop_vars, saved>>

\* mutant: the return after the ctags error is missing
MutCheckCtags ==
    /\ pc = "cm_ctags"
    /\ mid' = Snapshot
    /\ \/ pc' = "stageA" /\ stage' = stage /\ outcome' = outcome
       \/ pc' = "stageA" /\ stage' = "noctags" /\ outcome' = outcome
    /\ UNCHANGED <<nodes, settings, diff_annotations, cost, sampler_vars, ctx_settings,
                   diff_files, op, max_tokens, feature, token_budget, idx,
                   visited, pre, saved>>

\* _set_code_map, lines 34-42: check_ctags_executable()
CheckCtags ==
    /\ pc = "cm_ctags"
    /\ mid' = Snapshot
    /\ \/ pc' = "stageA" /\ stage' = stage /\ outcome' = outcome
       \/ pc' = "done" /\ stage' = "noctags" /\ outcome' = "completed"
    /\ UNCHANGED <<nodes, settings, diff_annotations, cost, sampler_vars, ctx_settings,
                   diff_files, op, max_tokens, feature, token_budget, idx,
                   visited, pre, saved>>

\* mutant: the Stage A update is not recursive
MutEnableRootOnly(f, ns) == UpdateSettings(f, ns, Root, TRUE, FALSE)

\* mutant: the Stage A update is skipped when the root already has the setting
MutEnableAll(f, ns) ==
    IF f[Root] THEN f ELSE UpdateSettings(f, ns, Root, TRUE, TRUE)

\* line 45: root.update_settings({...: True}, recursive=True) on one setting
EnableAll(f, ns) == UpdateSettings(f, ns, Root, TRUE, TRUE)

\* mutant: the Stage A update also turns include on
MutStageA ==
    /\ pc = "stageA"
    /\ code_map' = EnableAll(code_map, nodes)
    /\ include_signature' = EnableAll(include_signature, nodes)
    /\ include' = EnableAll(include, nodes)
    /\ LET context_length ==
               CountTokens(nodes, include', code_map', include_signature')
       IN IF ~Truthy(max_tokens) \/ context_length <= max_tokens
          THEN pc' = "done" /\ stage' = "A" /\ outcome' = "completed"
          ELSE pc' = "stageB" /\ stage' = stage /\ outcome' = outcome
    /\ UNCHANGED <<nodes, diff, diff_annotations, cost, sampler_vars, ctx_settings,
                   diff_files, op, max_tokens, feature, token_budget, idx,
                   visited, pre, mid, saved>>

\* _set_code_map, lines 45-49
StageA ==
    /\ pc = "stageA"
    /\ code_map' = EnableAll(code_map, nodes)
    /\ include_signature' = EnableAll(include_signature, nodes)
    /\ LET context_length ==
               CountTokens(nodes, include, code_map', include_signature')
       IN IF ~Truthy(max_tokens) \/ context_length <= max_tokens
          THEN pc' = "done" /\ stage' = "A" /\ outcome' = "completed"
          ELSE pc' = "stageB" /\ stage' = stage /\ outcome' = outcome
    /\ UNCHANGED <<nodes, include, diff, diff_annotations, cost, sampler_vars, ctx_settings,
                   diff_files, op, max_tokens, feature, token_budget, idx,
                   visited, pre, mid, saved>>

\* mutant: Stage B is kept when its total equals the ceiling
MutKeepStageB(lengthB, m) == lengthB <= m

\* line 53: whether the level without signatures is kept
KeepStageB(lengthB, m) == lengthB < m

\* _set_code_map, lines 51-61: signatures off everywhere, then either keep
\* that level or also turn the code map off everywhere
StageBC ==
    /\ pc = "stageB"
    /\ include_signature' = UpdateSettings(include_signature, nodes, Root, FALSE, TRUE)
    /\ LET lengthB == CountTokens(nodes, include, code_map, include_signature')
           cmC == UpdateSettings(code_map, nodes, Root, FALSE, TRUE)
           lengthC == CountTokens(nodes, include, cmC, include_signature')
       IN IF KeepStageB(lengthB, max_tokens)
          THEN /\ feature' = "include_signature"
               /\ stage' = "B"
               /\ code_map' = code_map
               /\ token_budget' = max_tokens - lengthB
          ELSE /\ feature' = "code_map"
               /\ stage' = "C"
               /\ code_map' = cmC
               /\ token_budget' = max_tokens - lengthC
    /\ idx' = 1
    /\ pc' = "stageD"
    /\ UNCHANGED <<nodes, include, diff, diff_annotations, cost, sampler_vars, ctx_settings,
                   diff_files, op, max_tokens, outcome, visited, pre, mid, saved>>

\* the setting the greedy loop switches
Feature == IF feature = "code_map" THEN code_map ELSE include_signature

\* mutant: an upgrade one token over the remaining budget is kept
MutFits(delta, budget) == ~(delta > budget + 1)

\* line 66: the node's upgrade fits the remaining budget
Fits(delta, budget) == ~(delta > budget)

\* mutant: skip the node that does not fit and continue with the next
MutAfterReject(i) == [idx |-> i + 1, stop |-> FALSE]

\* lines 66-68: what the loop does after a node that does not fit
AfterReject(i) == [idx |-> i, stop |-> TRUE]

\* _set_code_map, lines 62-69: one iteration of the greedy loop, or its end
StageD ==
    /\ pc = "stageD"
    /\ IF idx > Len(IterNodes(nodes))
       THEN /\ pc' = "done"
            /\ outcome' = "completed"
            /\ UNCHANGED <<code_map, include_signature, token_budget, idx, visited>>
       ELSE LET node == IterNodes(nodes)[idx]
                baseline == NodeTokens(node, include, code_map, include_signature)
                on == UpdateSettings(Feature, nodes, node, TRUE, FALSE)
                adjusted == IF feature = "code_map"
                            THEN NodeTokens(node, include, on, include_signature)
                            ELSE NodeTokens(node, include, code_map, on)
                fits == Fits(adjusted - baseline, token_budget)
                final == IF fits THEN on
                         ELSE UpdateSettings(on, nodes, node, FALSE, FALSE)
            IN /\ visited' = visited \cup {node}
               /\ IF feature = "code_map"
                  THEN code_map' = final /\ include_signature' = include_signature
                  ELSE include_signature' = final /\ code_map' = code_map
               /\ IF fits
                  THEN /\ token_budget' = token_budget - (adjusted - baseline)
                       /\ idx' = idx + 1
                       /\ pc' = pc
                       /\ outcome' = outcome
                  ELSE /\ token_budget' = token_budget
                       /\ idx' = AfterReject(idx).idx
                       /\ IF AfterReject(idx).stop
                          THEN pc' = "done" /\ outcome' = "completed"
                          ELSE pc' = pc /\ outcome' = outcome
    /\ UNCHANGED <<nodes, include, diff, diff_annotations, cost, sampler_vars, ctx_settings,
                   diff_files, op, max_tokens, feature, stage, pre, mid, saved>>

(* ---------------------- add_path and remove_path ----------------------- *)
\* the paths a user passes to add_path and remove_path
UserPaths == {FileA, DirD, FileB, FileVL, FileX}

\* add_path, lines 172-179: _cursor stays on the root, so every missing
\* segment of the path becomes a child of the root
IgnoredNodes(ns, path) == {<<path[i]>> : i \in 1 .. Len(path)} \ ns

\* mutant: add_path does not test whether the node is already included
MutAddPath(path) ==
    /\ pc = "idle"
    /\ pc' = "done"
    /\ op' = [name |-> "add_path", path |-> path]
    /\ pre' = Snapshot
    /\ mid' = Snapshot
    /\ IF path \notin OnDisk
       THEN outcome' = "missing" /\ UNCHANGED <<nodes, settings>>
       ELSE IF path \in nodes
       THEN /\ outcome' = "added"
            /\ include' = UpdateSettings(include, nodes, path, TRUE, TRUE)
            /\ UNCHANGED <<nodes, diff, code_map, include_signature>>
       ELSE LET new == IgnoredNodes(nodes, path)
            IN /\ outcome' = "ignored"
               /\ nodes' = nodes \cup new
               /\ include' = Inherit(include, new, Root)
               /\ diff' = Inherit(diff, new, Root)
               /\ code_map' = Inherit(code_map, new, Root)
               /\ include_signature' = Inherit(include_signature, new, Root)
    /\ UNCHANGED <<diff_annotations, cost, sampler_vars, ctx_settings, diff_files,
                   max_tokens, loop_vars, saved>>

\* CodeContext.add_path(path)
AddPath(path) ==
    /\ pc = "idle"
    /\ pc' = "done"
    /\ op' = [name |-> "add_path", path |-> path]
    /\ pre' = Snapshot
    /\ mid' = Snapshot
    /\ IF path \notin OnDisk
       THEN outcome' = "missing" /\ UNCHANGED <<nodes, settings>>
       ELSE IF path \in nodes
       THEN IF include[path]
            THEN outcome' = "already" /\ UNCHANGED <<nodes, settings>>
            ELSE /\ outcome' = "added"
                 /\ include' = UpdateSettings(include, nodes, path, TRUE, TRUE)
                 /\ UNCHANGED <<nodes, diff, code_map, include_signature>>
       ELSE LET new == IgnoredNodes(nodes, path)
            IN /\ outcome' = "ignored"
               /\ nodes' = nodes \cup new
               /\ include' = Inherit(include, new, Root)
               /\ diff' = Inherit(diff, new, Root)
               /\ code_map' = Inherit(code_map, new, Root)
               /\ include_signature' = Inherit(include_signature, new, Root)
    /\ UNCHANGED <<diff_annotations, cost, sampler_vars, ctx_settings, diff_files,
                   max_tokens, loop_vars, saved>>

\* CodeContext.remove_path(path)
RemovePath(path) ==
    /\ pc = "idle"
    /\ pc' = "done"
    /\ op' = [name |-> "remove_path", path |-> path]
    /\ pre' = Snapshot
    /\ mid' = Snapshot
    /\ IF path \notin nodes
       THEN outcome' = "not_in_context" /\ UNCHANGED include
       ELSE IF ~include[path]
       THEN outcome' = "already" /\ UNCHANGED include
       ELSE /\ outcome' = "removed"
            /\ include' = UpdateSettings(include, nodes, path, FALSE, TRUE)
    /\ UNCHANGED <<nodes, diff, code_map, include_signature, diff_annotations,
                   cost, sampler_vars, ctx_settings, diff_files, max_tokens, loop_vars, saved>>

\* CodeContext.files: the paths of the included files, in pre-order
Files(ns, inc) ==
    SelectSeq(IterNodes(ns), LAMBDA p : p \in FilePaths /\ inc[p])

(* ------------------------------ return --------------------------------- *)
\* the inputs and the result of the allocator run that just ended
RunRecord == [taken |-> TRUE, include |-> include, max_tokens |-> max_tokens,
              code_map |-> code_map, include_signature |-> include_signature]

\* the operation returns to its caller: its locals are gone
ReturnLocals ==
    /\ pc = "done"
    /\ pc' = "idle"
    /\ op' = NoOp
    /\ max_tokens' = NoCeiling
    /\ feature' = "none"
    /\ token_budget' = 0
    /\ idx' = 0
    /\ outcome' = "none"
    /\ stage' = "none"
    /\ visited' = {}
    /\ pre' = Snapshot
    /\ mid' = Snapshot
    /\ UNCHANGED <<nodes, settings, diff_annotations, cost, sampler_vars, ctx_settings,
                   diff_files>>

Return == ReturnLocals /\ UNCHANGED saved

\* the return of a run of _set_code_map that is kept for later comparison:
\* a run on a tree that had no code map anywhere, whose ctags check passed
ReturnKeep ==
    /\ ReturnLocals
    /\ ~saved.taken
    /\ stage \in {"A", "B", "C"}
    /\ pre.code_map = AllFalse
    /\ pre.include_signature = AllFalse
    /\ saved' = RunRecord

(* --------------------------- specification ----------------------------- *)
(* ------------------------------ Sampler -------------------------------- *)
\* a value that Python's `not x` / `x or ...` treats as false
Falsy(x) == x = NoValue \/ x = EmptyStr

\* the commits HEAD can be at
Heads == 1 .. MaxHead
\* the hexsha of the temporary commit get_active_snapshot_commit makes
SnapSha == MaxHead + 1

\* get_hexsha_active(): the hexsha of HEAD
GetHexshaActive == head

\* what get_active_snapshot_commit(repo) does: the work tree is clean, or it
\* is dirty and a snapshot commit is made, or a git command fails
SnapshotResults == {"clean", "snapshot", "error"}

\* mutant: the test of line 98 is inverted
MutHexshaChanged(recorded, active) == recorded = active

\* line 98: changes were made since the last sample
HexshaChanged(recorded, active) == recorded # active

\* Sampler.set_active_diff()
SetActiveDiff ==
    /\ pc = "idle"
    /\ \E r \in SnapshotResults :
          IF ~in_repo
          THEN \* line 92
               /\ sampler_op' = [name |-> "set_active_diff",
                                 result |-> "returned", sample |-> NoSample,
                                 before |-> history]
               /\ UNCHANGED <<sampler_fields, history>>
          ELSE IF r = "error"
          THEN \* line 75: SampleError leaves set_active_diff at line 94
               /\ sampler_op' = [name |-> "set_active_diff",
                                 result |-> "raised", sample |-> NoSample,
                                 before |-> history]
               /\ UNCHANGED <<sampler_fields, history>>
          ELSE /\ commit_active' = IF r = "clean" THEN NoValue ELSE SnapSha
               /\ IF Falsy(last_sample_hexsha)
                  THEN UNCHANGED <<last_sample_id, last_sample_hexsha>>
                  ELSE IF HexshaChanged(last_sample_hexsha, GetHexshaActive)
                  THEN /\ last_sample_id' = NoValue
                       /\ last_sample_hexsha' = NoValue
                  ELSE UNCHANGED <<last_sample_id, last_sample_hexsha>>
               /\ sampler_op' = [name |-> "set_active_diff",
                                 result |-> "returned", sample |-> NoSample,
                                 before |-> history]
               /\ history' =
                     [history EXCEPT
                        !.broken = @ \/ (history.last # NoValue
                                           /\ head # history.hexsha)]
    /\ UNCHANGED <<context_vars, in_repo, head, next_id>>

\* Sampler.create_sample()
CreateSample ==
    /\ pc = "idle"
    /\ next_id <= MaxSamples
    /\ \E diff_ok \in BOOLEAN :
          IF ~in_repo \/ head = 0 \/ ~diff_ok
          THEN \* Repo(cwd) at line 112, head.commit at line 128 or
               \* SampleError at line 140
               /\ sampler_op' = [name |-> "create_sample",
                                 result |-> "raised", sample |-> NoSample,
                                 before |-> history]
               /\ UNCHANGED <<sampler_fields, history, next_id>>
          ELSE LET sample ==
                       [id |-> next_id,
                        parent_id |-> IF Falsy(last_sample_id) THEN EmptyStr
                                      ELSE last_sample_id]
               IN /\ last_sample_id' = sample.id
                  /\ last_sample_hexsha' = GetHexshaActive
                  /\ commit_active' = NoValue
                  /\ next_id' = next_id + 1
                  /\ sampler_op' = [name |-> "create_sample",
                                    result |-> "returned", sample |-> sample,
                                    before |-> history]
                  /\ history' = [last |-> sample.id, hexsha |-> head,
                                 broken |-> FALSE]
    /\ UNCHANGED <<context_vars, in_repo, head>>

\* the user commits or checks out another commit between two calls
HeadMoves ==
    /\ pc = "idle"
    /\ in_repo
    /\ \E h \in Heads \ {head} : head' = h
    /\ sampler_op' = [name |-> "head_moves", result |-> "none",
                      sample |-> NoSample, before |-> history]
    /\ UNCHANGED <<context_vars, sampler_fields, in_repo, next_id, history>>

\* a session with a new Sampler and a scanned, idle CodeContext, inside or
\* outside a repository, before or after its first commit
InitSampler ==
    /\ nodes = Tracked
    /\ include = AllFalse
    /\ diff = AllFalse
    /\ code_map = AllFalse
    /\ include_signature = AllFalse
    /\ diff_annotations = {}
    /\ cost = Costs(LargeCost, FixedCost)
    /\ paths = {}
    /\ ctor_paths = {}
    /\ exclude_paths = {}
    /\ no_code_map = FALSE
    /\ diff_files = << >>
    /\ pc = "idle"
    /\ Locals
    /\ SamplerAttributes
    /\ in_repo \in BOOLEAN
    /\ head \in IF in_repo THEN 0 .. MaxHead ELSE {0}
    /\ next_id = 1
    /\ sampler_op = NoSamplerOp
    /\ history = NoHistory

NextSampler ==
    \/ SetActiveDiff
    \/ CreateSample
    \/ HeadMoves

SpecSampler == InitSampler /\ [][NextSampler]_vars

Next ==
    \/ \E m \in Ceilings : RefreshStart(m)
    \/ RefreshInclude
    \/ RefreshDiff
    \/ RefreshValidate
    \/ CheckCtags
    \/ StageA
    \/ StageBC
    \/ StageD
    \/ \E p \in UserPaths : AddPath(p)
    \/ \E p \in UserPaths : RemovePath(p)
    \/ Return

Spec == Init /\ [][Next]_vars

NextAlloc ==
    \/ \E m \in Ceilings : CallSetCodeMap(m)
    \/ CheckCtags
    \/ StageA
    \/ StageBC
    \/ StageD
    \/ Return
    \/ ReturnKeep

SpecAlloc == InitAlloc /\ [][NextAlloc]_vars

TypeOK ==
    /\ nodes \subseteq AllPaths
    /\ Root \in nodes
    /\ token_budget \in Int

(* ------------------------ allocator: claims ---------------------------- *)
AllocDone == pc = "done" /\ op.name \in {"set_code_map", "refresh"}
           /\ outcome = "completed"

\* total with code_map=False on every node (the Stage C baseline)
TotalC == CountTokens(nodes, include, AllFalse, AllFalse)
\* total with code_map=True, include_signature=False on every node (Stage B)
TotalB == CountTokens(nodes, include, [q \in AllPaths |-> TRUE], AllFalse)
\* total with code_map=True, include_signature=True on every node (Stage A)
TotalA == CountTokens(nodes, include, [q \in AllPaths |-> TRUE],
                      [q \in AllPaths |-> TRUE])
TotalNow == CountTokens(nodes, include, code_map, include_signature)

\* the nodes of the tree on which the setting f is on
OnNodes(f) == {n \in nodes : f[n]}
\* the first k nodes of the pre-order
FirstNodes(k) == {IterNodes(nodes)[i] : i \in 1 .. k}
\* S is a prefix of root.iter_nodes()
IsPreOrderPrefix(S) == \E k \in 0 .. Len(IterNodes(nodes)) : S = FirstNodes(k)

\* C1: after _set_code_map returns, for a ceiling max_tokens >= 0 that is at
\* least the Stage C baseline total, the total token count of the tree is at
\* most max_tokens (the ceiling 0 included).
C1_AllocatorSafety ==
    (pc = "done" /\ op.name = "set_code_map" /\ max_tokens >= 0
        /\ max_tokens >= TotalC)
    => TotalNow <= max_tokens

\* C2 as stated: when the Stage A total exceeds the ceiling and the Stage B
\* total is within it, the allocator accepts Stage B and stops: every node
\* ends with code_map=True and include_signature=False.
C2_StageBStops ==
    (AllocDone /\ stage # "noctags" /\ max_tokens # NoCeiling
        /\ TotalA > max_tokens /\ TotalB <= max_tokens)
    => \A n \in nodes : code_map[n] /\ ~include_signature[n]

\* the total if include_signature were also on for node n
TotalWithSignature(n) ==
    CountTokens(nodes, include, code_map,
                [include_signature EXCEPT ![n] = TRUE])
\* the total if code_map were also on for node n
TotalWithCodeMap(n) ==
    CountTokens(nodes, include, [code_map EXCEPT ![n] = TRUE],
                include_signature)

\* C2 amended: when the Stage A total exceeds the ceiling and the Stage B
\* total is strictly below it, Stage B is the baseline of the greedy loop:
\* every node ends with code_map=True, and include_signature ends True on
\* the longest pre-order prefix of nodes that keeps the total within the
\* ceiling. When the Stage B total equals the ceiling, Stage B is rejected:
\* include_signature ends False everywhere and code_map ends True on the
\* longest pre-order prefix that keeps the total within the ceiling.
C2_StageBBaseline ==
    (AllocDone /\ stage # "noctags" /\ max_tokens # NoCeiling
        /\ TotalA > max_tokens /\ TotalB <= max_tokens)
    => /\ TotalNow <= max_tokens
       /\ IF TotalB < max_tokens
          THEN /\ stage = "B"
               /\ \A n \in nodes : code_map[n]
               /\ IsPreOrderPrefix(OnNodes(include_signature))
               /\ \A n \in nodes \ OnNodes(include_signature) :
                     n = IterNodes(nodes)[Cardinality(OnNodes(include_signature)) + 1]
                        => TotalWithSignature(n) > max_tokens
          ELSE /\ stage = "C"
               /\ \A n \in nodes : ~include_signature[n]
               /\ IsPreOrderPrefix(OnNodes(code_map))
               /\ \A n \in nodes \ OnNodes(code_map) :
                     n = IterNodes(nodes)[Cardinality(OnNodes(code_map)) + 1]
                        => TotalWithCodeMap(n) > max_tokens

\* C2 witness: Stage B was kept and the greedy loop then turned signatures
\* on for some file and left them off for another.
C2_Witness ==
    /\ AllocDone /\ stage = "B"
    /\ TotalA > max_tokens /\ TotalB < max_tokens
    /\ \E n \in nodes \cap FilePaths : include_signature[n]
    /\ \E n \in nodes \cap FilePaths : ~include_signature[n]

\* the greedy loop ran in this call
GreedyRan == stage \in {"B", "C"}

\* token delta of turning the active feature on for node n alone
FeatureDelta(n) ==
    IF feature = "code_map"
    THEN NodeTokens(n, include, [code_map EXCEPT ![n] = TRUE], include_signature)
         - NodeTokens(n, include, [code_map EXCEPT ![n] = FALSE], include_signature)
    ELSE NodeTokens(n, include, code_map, [include_signature EXCEPT ![n] = TRUE])
         - NodeTokens(n, include, code_map, [include_signature EXCEPT ![n] = FALSE])

\* C3: in the greedy loop the nodes with the active feature on are a prefix
\* of root.iter_nodes(); the loop ends at the first node whose delta exceeds
\* the remaining budget, that node is back at the baseline value, and no
\* node after it is visited or changed.
C3_StopDontSkip ==
    (pc \in {"stageD", "done"} /\ GreedyRan)
    => LET it == IterNodes(nodes)
           on == OnNodes(Feature)
       IN /\ IsPreOrderPrefix(on)
          /\ IsPreOrderPrefix(visited)
          /\ on \subseteq visited
          /\ Cardinality(visited \ on) <= 1
          /\ \A n \in nodes \ visited :
                code_map[n] = (stage = "B") /\ ~include_signature[n]
          /\ pc = "stageD" => on = visited /\ visited = FirstNodes(idx - 1)
          /\ pc = "done" =>
                \/ visited = nodes /\ on = nodes
                \/ /\ visited = FirstNodes(idx)
                   /\ on = FirstNodes(idx - 1)
                   /\ FeatureDelta(it[idx]) > token_budget

\* C3 witness: the loop stopped at a file that did not fit after upgrading
\* a file, and a file after it would have fit the remaining budget.
C3_Witness ==
    /\ pc = "done" /\ GreedyRan
    /\ \E n \in visited \cap FilePaths : Feature[n]
    /\ \E n \in visited \cap FilePaths : ~Feature[n]
    /\ \E n \in (nodes \ visited) \cap FilePaths : FeatureDelta(n) <= token_budget

\* C4: a run of _set_code_map whose ctags check passed ends with the same
\* code_map and include_signature on every node as an earlier run on the same
\* tree with the same costs, selection and ceiling, whatever code_map and
\* include_signature were before each of the two runs.
C4_Determinism ==
    (pc = "done" /\ op.name = "set_code_map" /\ stage \in {"A", "B", "C"}
        /\ saved.taken /\ saved.include = include
        /\ saved.max_tokens = max_tokens)
    => /\ code_map = saved.code_map
       /\ include_signature = saved.include_signature

\* C4 witness: the second run started from other code_map values than the
\* first and ended in the greedy loop with some file upgraded, some not.
C4_Witness ==
    /\ pc = "done" /\ op.name = "set_code_map" /\ GreedyRan
    /\ saved.taken /\ saved.include = include /\ saved.max_tokens = max_tokens
    /\ pre.code_map # AllFalse
    /\ pre.include_signature # AllFalse
    /\ \E n \in nodes \cap FilePaths : Feature[n]
    /\ \E n \in nodes \cap FilePaths : ~Feature[n]

(* ------------------------- pipeline: claims ---------------------------- *)
\* C5: after _set_include_paths, every node whose path is in both paths and
\* exclude_paths has include=True.
C5_OverlayPrecedence ==
    pc = "annotate"
    => \A n \in nodes : (n \in paths /\ n \in exclude_paths) => include[n]

\* C5 witness: d/b and its directory d are in both lists, d/b was not
\* included before the overlay and is included after it.
C5_Witness ==
    /\ pc = "annotate"
    /\ {DirD, FileB} \subseteq paths \cap exclude_paths \cap nodes
    /\ ~mid.include[FileB]
    /\ include[FileB]

\* C6: in refresh with a non-null ceiling, a validated total above the
\* ceiling raises budget-exceeded and the allocator never starts; and a
\* refresh that raised budget-exceeded has changed no node's code_map or
\* include_signature.
C6_ValidationPrecedesAllocation ==
    op.name = "refresh"
    => /\ (max_tokens # NoCeiling
             /\ (pc = "cm_ctags"
                 \/ (pc = "done" /\ outcome = "completed" /\ no_code_map)))
          => TotalNow <= max_tokens
       /\ outcome = "budget_exceeded"
          => /\ code_map = pre.code_map
             /\ include_signature = pre.include_signature

\* C7: refresh either completes or raises budget-exceeded; nothing else ends
\* the pipeline or the process.
C7_OnlyBudgetExceededAborts ==
    /\ pc # "exited"
    /\ op.name = "refresh" => outcome \in {"running", "completed", "budget_exceeded"}

\* the paths of the segments of path p, from the root down
Chain(p) == {SubSeq(p, 1, i) : i \in 1 .. Len(p)}

\* C8: add_path of a path that is on disk and has no node gives every
\* segment a node below the node of the segment before it, and adds no
\* other node, so that root[path] resolves afterwards.
C8_NestedChain ==
    (pc = "done" /\ op.name = "add_path" /\ op.path \in OnDisk
        /\ op.path \notin pre.nodes)
    => /\ Chain(op.path) \subseteq nodes
       /\ nodes \ pre.nodes \subseteq Chain(op.path)

\* the nodes at or below a path of diff_context.files
DiffTouched == {n \in AllPaths : \E i \in 1 .. Len(diff_files) :
                                     IsPrefix(diff_files[i], n)}

\* C9: _set_diff_annotations leaves include (and code_map, include_signature,
\* the set of nodes) as they were, changes the diff setting and annotations
\* only at or below the diff's files, and never turns diff off; a file that is
\* in exclude_paths and not in paths and that the diff touches ends refresh
\* with include=False and diff=True.
C9_DiffIndependent ==
    /\ pc \in {"validate", "raised_key"}
       => /\ include = mid.include
          /\ code_map = mid.code_map
          /\ include_signature = mid.include_signature
          /\ nodes = mid.nodes
          /\ \A n \in AllPaths :
                /\ n \notin DiffTouched => diff[n] = mid.diff[n]
                /\ mid.diff[n] => diff[n]
          /\ mid.diff_annotations \subseteq diff_annotations
          /\ diff_annotations \ mid.diff_annotations \subseteq DiffTouched
    /\ pc = "validate" => \A n \in nodes \cap DiffTouched : diff[n]
    /\ (pc = "done" /\ op.name = "refresh" /\ outcome = "completed")
       => \A n \in nodes \cap DiffTouched :
             (n \in exclude_paths /\ n \notin paths)
                => ~include[n] /\ diff[n]

\* C9 witness: a refresh ended in which the diff touched the excluded d/b and
\* no longer touched a, which an earlier refresh had marked.
C9_Witness ==
    /\ pc = "done" /\ op.name = "refresh" /\ outcome = "completed"
    /\ FileB \in DiffTouched /\ FileB \in exclude_paths /\ FileB \notin paths
    /\ ~include[FileB] /\ diff[FileB]
    /\ FileA \notin DiffTouched /\ diff[FileA]

\* C10: for a CodeContext constructed with no explicit include paths, the
\* overlay of every refresh forces include=True on the nodes of the files of
\* the diff obtained in that same refresh.
C10_DefaultFollowsDiff ==
    (pc = "annotate" /\ ctor_paths = {})
    => \A n \in nodes : (\E i \in 1 .. Len(diff_files) : diff_files[i] = n)
                           => include[n]

(* ------------------------ later claims: allocator ---------------------- *)
\* C11: when the ctags check fails, _set_code_map returns at once, without
\* raising, and include, diff, code_map and include_signature of every node
\* (and the set of nodes) are what they were when it was called.
C11_NoCtagsNoOp ==
    stage = "noctags"
    => /\ pc = "done"
       /\ outcome = "completed"
       /\ include = mid.include
       /\ diff = mid.diff
       /\ code_map = mid.code_map
       /\ include_signature = mid.include_signature
       /\ nodes = mid.nodes

\* C11 witness: the check failed in a refresh with a ceiling, on a tree where
\* some file had a code map, some had none, and an included file had a diff.
C11_Witness ==
    /\ stage = "noctags" /\ pc = "done"
    /\ max_tokens # NoCeiling
    /\ \E n \in nodes \cap FilePaths : code_map[n]
    /\ \E n \in nodes \cap FilePaths : ~code_map[n]
    /\ \E n \in nodes \cap FilePaths : include[n] /\ diff[n]

\* C12: a refresh raises budget-exceeded only when a ceiling is configured
\* and the total of the included selection, counted with code_map off on
\* every node, exceeds it; code maps left on by an earlier refresh do not
\* make a later refresh raise while the raw included content still fits.
C12_RaisesOnlyOnRawOverflow ==
    (op.name = "refresh" /\ outcome = "budget_exceeded")
    => (max_tokens # NoCeiling /\ TotalC > max_tokens)

\* the allocator has gone past its Stage A test in the current call
PastStageA == pc \in {"stageB", "stageD"} \/ stage \in {"A", "B", "C"}

\* C13: when the ctags check passes and either no ceiling is set or the total
\* with code_map and include_signature on for every node is at most the
\* ceiling, _set_code_map stops after Stage A: every node has code_map=True
\* and include_signature=True and the greedy pass visits no node.
C13_StageAAcceptance ==
    (PastStageA /\ (max_tokens = NoCeiling \/ TotalA <= max_tokens))
    => /\ pc = "done"
       /\ stage = "A"
       /\ outcome = "completed"
       /\ \A n \in nodes : code_map[n] /\ include_signature[n]
       /\ visited = {}

\* C13 witness: Stage A was accepted under a ceiling of at least 1 that the
\* full total just fits, on a tree that had no code maps and an included
\* file.
C13_Witness ==
    /\ pc = "done" /\ stage = "A"
    /\ max_tokens >= 1
    /\ TotalA = max_tokens
    /\ pre.code_map = AllFalse
    /\ \E n \in nodes \cap FilePaths : include[n]

(* ----------------------- later claims: refresh ------------------------- *)
\* C14: for every path in diff_context.files, a path with no node (a file
\* deleted in the working tree) included, _set_diff_annotations completes
\* without raising and a node at that path with diff=True exists afterwards.
C14_DiffAnnotationsTotal ==
    (op.name = "refresh" /\ pc \in {"validate", "raised_key"})
    => /\ pc # "raised_key"
       /\ \A f \in Range(diff_files) : f \in nodes /\ diff[f]

\* C15: in a refresh whose validation passed, the greedy pass starts with a
\* remaining budget that is not negative, and at the start and at the end of
\* every iteration the remaining budget equals the ceiling minus the current
\* total of the tree and is not negative.
C15_BudgetAccounting ==
    (op.name = "refresh" /\ GreedyRan /\ pc \in {"stageD", "done"})
    => /\ token_budget = max_tokens - TotalNow
       /\ token_budget >= 0

\* C15 witness: in a refresh the greedy pass has turned the feature on for a
\* file, at a positive cost, and is about to visit a further node.
C15_Witness ==
    /\ op.name = "refresh" /\ GreedyRan /\ pc = "stageD"
    /\ idx <= Len(IterNodes(nodes))
    /\ \E n \in visited \cap FilePaths : Feature[n] /\ FeatureDelta(n) > 0

\* the ancestors-or-self of node n that are in paths or in exclude_paths
Listed(n) == {a \in Chain(n) \cup {Root} : a \in paths \cup exclude_paths}
\* the deepest of them
Nearest(n) == CHOOSE a \in Listed(n) : \A b \in Listed(n) : Len(b) <= Len(a)

\* C16: after the inclusion overlay, the include of a node is decided by its
\* nearest ancestor-or-self that is in paths or exclude_paths (True when that
\* one is in paths, False when it is only in exclude_paths); a node with no
\* listed ancestor-or-self keeps the include it had before the overlay.
C16_NearestListedWins ==
    pc = "annotate"
    => \A n \in nodes :
          IF Listed(n) = {}
          THEN include[n] = mid.include[n]
          ELSE include[n] = (Nearest(n) \in paths)

\* C16 witness: d is excluded and d/b inside it is listed in paths, so d/b is
\* included while its sibling d/c, included before, follows d; the unlisted
\* file a keeps the include=True it had.
C16_Witness ==
    /\ pc = "annotate"
    /\ paths = {FileB} /\ exclude_paths = {DirD}
    /\ {FileA, FileB, FileC, DirD} \subseteq nodes
    /\ include[FileB]
    /\ mid.include[FileC] /\ ~include[FileC]
    /\ mid.include[FileA] /\ include[FileA]

(* ------------------- later claims: add_path, remove_path --------------- *)
\* the tree is as it was when the operation was called
TreeUnchanged == Snapshot = pre

\* only include changed, to val on op.path and its descendants
IncludeSetBelow(val) ==
    /\ nodes = pre.nodes
    /\ diff = pre.diff
    /\ code_map = pre.code_map
    /\ include_signature = pre.include_signature
    /\ diff_annotations = pre.diff_annotations
    /\ \A n \in AllPaths :
          include[n] = IF n \in nodes /\ IsPrefix(op.path, n) THEN val
                       ELSE pre.include[n]

\* C17: add_path of a path that does not exist on disk or whose node is
\* already included, and remove_path of a path with no node or whose node is
\* already excluded, leave the tree unchanged; add_path of an existing node
\* with include=False sets include=True on it and its descendants, and
\* remove_path of a node with include=True sets include=False on it and its
\* descendants, and nothing else changes.
C17_AddRemoveFrame ==
    /\ (pc = "done" /\ op.name = "add_path")
       => /\ (op.path \notin OnDisk
                \/ (op.path \in pre.nodes /\ pre.include[op.path]))
             => TreeUnchanged
          /\ (op.path \in OnDisk /\ op.path \in pre.nodes
                /\ ~pre.include[op.path])
             => IncludeSetBelow(TRUE)
    /\ (pc = "done" /\ op.name = "remove_path")
       => /\ (op.path \notin pre.nodes
                \/ (op.path \in pre.nodes /\ ~pre.include[op.path]))
             => TreeUnchanged
          /\ (op.path \in pre.nodes /\ pre.include[op.path])
             => IncludeSetBelow(FALSE)

\* C17 witness: add_path(d) on an excluded directory d with d/b included and
\* d/c excluded before; afterwards d, d/b and d/c are included.
C17_Witness ==
    /\ pc = "done" /\ op = [name |-> "add_path", path |-> DirD]
    /\ ~pre.include[DirD] /\ pre.include[FileB] /\ ~pre.include[FileC]
    /\ include[DirD] /\ include[FileB] /\ include[FileC]

(* -------------------- later claims: allocator frame -------------------- *)
\* _set_code_map has been entered and its ctags check is done
InAllocator == pc \in {"stageA", "stageB", "stageD"} \/ stage # "none"

\* C18: _set_code_map changes only code_map and include_signature: at every
\* point of a call, include and diff of every node, the set of nodes and
\* their diff annotations, and the list CodeContext.files are what they were
\* when it was entered.
C18_AllocatorFrame ==
    InAllocator
    => /\ include = mid.include
       /\ diff = mid.diff
       /\ nodes = mid.nodes
       /\ diff_annotations = mid.diff_annotations
       /\ Files(nodes, include) = Files(mid.nodes, mid.include)

\* C18 witness: a call that went past Stage A and ran the greedy pass has
\* returned with code maps changed, on a tree with an included file and a
\* file marked by a diff.
C18_Witness ==
    /\ pc = "done" /\ GreedyRan
    /\ code_map # mid.code_map
    /\ Files(nodes, include) # << >>
    /\ \E n \in nodes \cap FilePaths : diff[n]

(* --------------------------- Sampler: claims --------------------------- *)
\* the last Sampler call was a create_sample that returned a sample
SampleReturned ==
    sampler_op.name = "create_sample" /\ sampler_op.result = "returned"

\* C19: over any sequence of set_active_diff and create_sample calls, the
\* parent_id of a returned sample is the id of the most recently created
\* earlier sample when there is one and no set_active_diff since then found
\* HEAD at another hexsha than the one recorded with that sample, and is the
\* empty string otherwise; and when create_sample returns, commit_active is
\* None and last_sample_id is the id of the returned sample.
C19_ParentChaining ==
    SampleReturned
    => /\ sampler_op.sample.parent_id =
             IF sampler_op.before.last # NoValue /\ ~sampler_op.before.broken
             THEN sampler_op.before.last
             ELSE EmptyStr
       /\ commit_active = NoValue
       /\ last_sample_id = sampler_op.sample.id

\* C19 witness: a sample was created after an earlier one while HEAD is at
\* the commit recorded with the earlier one, but a set_active_diff in
\* between found HEAD elsewhere, so the new sample has no parent.
C19_Witness ==
    /\ SampleReturned
    /\ sampler_op.before.last # NoValue
    /\ sampler_op.before.broken
    /\ sampler_op.before.hexsha = head
    /\ sampler_op.sample.parent_id = EmptyStr

\* C19 second case reached: a sample chained to its predecessor after a
\* set_active_diff that took a snapshot commit and found HEAD unchanged.
C19_Chained ==
    /\ SampleReturned
    /\ sampler_op.sample.id = MaxSamples
    /\ sampler_op.sample.parent_id = MaxSamples - 1

====
